---- MODULE Spec2Model ----
(***************************************************************************)
(* Model of src/app.py: the execution-capture log scraper                  *)
(* (RealSmolAgentsExecutionCapture), the weather heuristics and the        *)
(* query routing of main().                                                *)
(*                                                                         *)
(* Text is modelled character by character: a Python str is a sequence of  *)
(* one-character strings.  Three non-ASCII characters of the source are    *)
(* written with ASCII stand-ins, used for nothing else in the model:       *)
(*     "=" stands for U+2501 (heavy horizontal bar, step-boundary line),   *)
(*     "-" stands for U+2500 (light horizontal bar, block separator),      *)
(*     "^" stands for U+00B0 (degree sign).                                *)
(* Emoji prefixes of log messages are left out of the message kinds.       *)
(***************************************************************************)
EXTENDS Naturals, Integers, Sequences, FiniteSets, TLC

VARIABLES
    pc,              \* position of the modelled interaction
    query,           \* the query string of the interaction
    agent_output,    \* what the external agent does: [stdout, stderr, raises, message, result]
    emitted,         \* the lines the agent printed (agent_output.stdout is their join)
    clock,           \* the wall clock read by time.strftime
    captured_code,   \* self.captured_code
    execution_logs,  \* self.execution_logs
    live_logs,       \* self.live_logs
    raw_output,      \* self.raw_output
    result,          \* what run_with_real_execution_capture returned or raised
    search_output,   \* what the search tool does: [raises, message, text]
    asked_location,  \* run_weather_agent_with_smolagent_google_search: location
    weather_info,    \* run_weather_agent_with_smolagent_google_search: weather_info
    calls,           \* how often the interaction invoked the agent and the search tool
    earlier          \* an earlier run of run_with_real_execution_capture, kept to compare

vars == <<pc, query, agent_output, emitted, clock, captured_code,
          execution_logs, live_logs, raw_output, result,
          search_output, asked_location, weather_info, calls, earlier>>

-----------------------------------------------------------------------------
(* Strings *)

\* n copies of the character c
Rep(c, n) == [i \in 1..n |-> c]

WhiteSpace == {" ", "\t", "\r", "\n"}
Digits == {"0", "1", "2", "3", "4", "5", "6", "7", "8", "9"}

\* s[i..] starts with lit
StartsAt(s, lit, i) ==
    /\ i >= 1
    /\ i + Len(lit) - 1 <= Len(s)
    /\ \A k \in 1..Len(lit) : s[i + k - 1] = lit[k]

\* Python: lit in s
Contains(s, lit) == \E i \in 1..(Len(s) + 1) : StartsAt(s, lit, i)

\* Python: s.strip()
Strip(s) ==
    LET keep == {i \in 1..Len(s) : s[i] \notin WhiteSpace}
    IN  IF keep = {} THEN <<>>
        ELSE LET lo == CHOOSE i \in keep : \A j \in keep : i <= j
                 hi == CHOOSE i \in keep : \A j \in keep : j <= i
             IN  SubSeq(s, lo, hi)

\* Python: s.split('\n'): one field more than there are newlines, field k lying
\* between the (k-1)th and the kth newline
SplitLines(s) ==
    LET nl == {i \in 1..Len(s) : s[i] = "\n"}
        nth(k) == IF k = 0 THEN 0
                  ELSE IF k > Cardinality(nl) THEN Len(s) + 1
                  ELSE CHOOSE i \in nl : Cardinality({j \in nl : j < i}) = k - 1
    IN  [k \in 1..(Cardinality(nl) + 1) |-> SubSeq(s, nth(k - 1) + 1, nth(k) - 1)]

RECURSIVE JoinLines(_)
\* Python: '\n'.join(ls)
JoinLines(ls) ==
    IF ls = <<>> THEN <<>>
    ELSE IF Len(ls) = 1 THEN ls[1]
    ELSE ls[1] \o <<"\n">> \o JoinLines(Tail(ls))

\* the value of one decimal digit
DigitVal(c) ==
    CASE c = "0" -> 0 [] c = "1" -> 1 [] c = "2" -> 2 [] c = "3" -> 3 [] c = "4" -> 4
      [] c = "5" -> 5 [] c = "6" -> 6 [] c = "7" -> 7 [] c = "8" -> 8 [] c = "9" -> 9

DigitChar(d) == <<"0", "1", "2", "3", "4", "5", "6", "7", "8", "9">>[d + 1]

RECURSIVE StrToInt(_)
\* Python: int(s) for a string of decimal digits
StrToInt(s) ==
    IF s = <<>> THEN 0
    ELSE 10 * StrToInt(SubSeq(s, 1, Len(s) - 1)) + DigitVal(s[Len(s)])

RECURSIVE IntToStr(_)
\* Python: str(n) / f"{n}" for n >= 0
IntToStr(n) ==
    IF n < 10 THEN <<DigitChar(n)>>
    ELSE IntToStr(n \div 10) \o <<DigitChar(n % 10)>>

\* the end of the longest run of characters of set cs that starts at i (i - 1 if none)
RECURSIVE RunEnd(_, _, _)
RunEnd(s, cs, i) ==
    IF i <= Len(s) /\ s[i] \in cs THEN RunEnd(s, cs, i + 1) ELSE i - 1

-----------------------------------------------------------------------------
(* The scraper: RealSmolAgentsExecutionCapture *)

\* line 88: 36 heavy bars and " Step"
StepMarker == Rep("=", 36) \o <<" ", "S", "t", "e", "p">>
\* line 94: one light bar and " Executing parsed code:"
ExecMarker == <<"-", " ", "E", "x", "e", "c", "u", "t", "i", "n", "g", " ",
                "p", "a", "r", "s", "e", "d", " ", "c", "o", "d", "e", ":">>
\* line 99: 48 light bars
Separator == Rep("-", 48)
DurationWord == <<"D", "u", "r", "a", "t", "i", "o", "n">>
SecondsWord == <<"s", "e", "c", "o", "n", "d", "s">>

\* re.search(r'Step (\d+)', line): the digits of the leftmost match, or "none"
StepMatch(line) ==
    LET lit == <<"S", "t", "e", "p", " ">>
        at == {i \in 1..Len(line) :
                  StartsAt(line, lit, i) /\ RunEnd(line, Digits, i + 5) >= i + 5}
    IN  IF at = {} THEN [found |-> FALSE, group |-> <<>>]
        ELSE LET i == CHOOSE k \in at : \A j \in at : k <= j
             IN  [found |-> TRUE, group |-> SubSeq(line, i + 5, RunEnd(line, Digits, i + 5))]

\* re.search(r'Duration ([\d.]+) seconds', line): the group of the leftmost match
DurationMatch(line) ==
    LET lit == DurationWord \o <<" ">>
        tail == <<" ">> \o SecondsWord
        num == Digits \cup {"."}
        at == {i \in 1..Len(line) :
                  /\ StartsAt(line, lit, i)
                  /\ RunEnd(line, num, i + 9) >= i + 9
                  /\ StartsAt(line, tail, RunEnd(line, num, i + 9) + 1)}
    IN  IF at = {} THEN [found |-> FALSE, group |-> <<>>]
        ELSE LET i == CHOOSE k \in at : \A j \in at : k <= j
             IN  [found |-> TRUE, group |-> SubSeq(line, i + 9, RunEnd(line, num, i + 9))]

\* lines 124-125: "[HH:MM:SS] message"; a message is its fixed wording and the
\* text formatted into it
FormatLog(ts, kind, arg) == [ts |-> ts, kind |-> kind, arg |-> arg]

\* lines 122-127, on the pair of lists
AddLiveLog(st, ts, kind, arg) ==
    [st EXCEPT !.live_logs = Append(@, FormatLog(ts, kind, arg)),
               !.execution_logs = Append(@, FormatLog(ts, kind, arg))]

\* lines 102-107
CodeBlockRecord(step_counter, current_code) ==
    [step |-> step_counter,
     code |-> JoinLines(current_code),
     type |-> "real_execution",
     description |-> <<"SmolAgent Real Execution - Step ">> \o IntToStr(step_counter)]

\* lines 88-92: a step-boundary line
DetectStep(st, line, ts) ==
    IF StepMatch(line).found
    THEN AddLiveLog(st, ts, "Step detected", IntToStr(StrToInt(StepMatch(line).group)))
    ELSE st

\* lines 94-97: a block marker line
OpenBlock(st, ts) ==
    AddLiveLog([st EXCEPT !.in_code_block = TRUE, !.current_code = <<>>],
               ts, "Code execution block found", <<>>)

\* CloseBlock without the test of line 100: a record for every close
CloseBlockUnguarded(st, ts) ==
    [AddLiveLog(
        [st EXCEPT !.captured_code =
                      Append(@, CodeBlockRecord(st.step_counter, st.current_code)),
                   !.step_counter = @ + 1],
        ts, "Captured real code block", IntToStr(st.step_counter))
     EXCEPT !.in_code_block = FALSE, !.current_code = <<>>]

\* CloseBlock that logs every close, with or without accumulated lines
CloseBlockLogsEvery(st, ts) ==
    [AddLiveLog(
        IF st.current_code # <<>>
        THEN [st EXCEPT !.captured_code =
                           Append(@, CodeBlockRecord(st.step_counter, st.current_code)),
                        !.step_counter = @ + 1]
        ELSE st,
        ts, "Captured real code block", IntToStr(st.step_counter))
     EXCEPT !.in_code_block = FALSE, !.current_code = <<>>]

\* lines 99-112: a separator line met inside a block
CloseBlock(st, ts) ==
    LET emit ==
          IF st.current_code # <<>>
          THEN AddLiveLog(
                 [st EXCEPT !.captured_code =
                               Append(@, CodeBlockRecord(st.step_counter, st.current_code)),
                            !.step_counter = @ + 1],
                 ts, "Captured real code block", IntToStr(st.step_counter))
          ELSE st
    IN  [emit EXCEPT !.in_code_block = FALSE, !.current_code = <<>>]

\* lines 114-115
Accumulate(st, line) == [st EXCEPT !.current_code = Append(@, line)]

\* lines 117-120
DetectDuration(st, line, ts) ==
    IF DurationMatch(line).found
    THEN AddLiveLog(st, ts, "Step duration", DurationMatch(line).group)
    ELSE st

\* Branch with the accumulating arm tried first: inside a block every
\* non-empty line but the separator is code
BranchAccumulateFirst(st, line) ==
    IF st.in_code_block /\ line # <<>> /\ ~Contains(line, Separator) THEN "accumulate"
    ELSE IF Contains(line, StepMarker) THEN "step"
    ELSE IF Contains(line, ExecMarker) THEN "open"
    ELSE IF Contains(line, Separator) /\ st.in_code_block THEN "close"
    ELSE IF Contains(line, DurationWord) /\ Contains(line, SecondsWord) THEN "duration"
    ELSE "skip"

\* lines 88, 94, 99, 114, 117: which arm of the if/elif chain a stripped line takes
Branch(st, line) ==
    IF Contains(line, StepMarker) THEN "step"
    ELSE IF Contains(line, ExecMarker) THEN "open"
    ELSE IF Contains(line, Separator) /\ st.in_code_block THEN "close"
    ELSE IF st.in_code_block /\ line # <<>> THEN "accumulate"
    ELSE IF Contains(line, DurationWord) /\ Contains(line, SecondsWord) THEN "duration"
    ELSE "skip"

\* lines 86-120: the body of the loop, on one raw line
ParseLine(st, raw, ts) ==
    LET line == Strip(raw)
        arm == Branch(st, line)
    IN  CASE arm = "step" -> DetectStep(st, line, ts)
          [] arm = "open" -> OpenBlock(st, ts)
          [] arm = "close" -> CloseBlock(st, ts)
          [] arm = "accumulate" -> Accumulate(st, line)
          [] arm = "duration" -> DetectDuration(st, line, ts)
          [] OTHER -> st

RECURSIVE ParseLoop(_, _, _, _)
\* line 85: for line in lines
ParseLoop(st, lines, i, ts) ==
    IF i > Len(lines) THEN st
    ELSE ParseLoop(ParseLine(st, lines[i], ts), lines, i + 1, ts)

\* lines 78-120: _parse_real_smolagent_execution, on the object's lists
ParseRealSmolagentExecution(self, output, ts) ==
    LET st0 == [step_counter |-> 1, in_code_block |-> FALSE, current_code |-> <<>>,
                captured_code |-> self.captured_code,
                live_logs |-> self.live_logs,
                execution_logs |-> self.execution_logs]
        st == ParseLoop(st0, SplitLines(output), 1, ts)
    IN  [self EXCEPT !.captured_code = st.captured_code,
                     !.live_logs = st.live_logs,
                     !.execution_logs = st.execution_logs]

\* Cleared that leaves the code blocks of the run before in place
ClearedLogsOnly(self) ==
    [self EXCEPT !.execution_logs = <<>>, !.live_logs = <<>>, !.raw_output = <<>>]

\* lines 43-46
Cleared(self) ==
    [captured_code |-> <<>>, execution_logs |-> <<>>, live_logs |-> <<>>,
     raw_output |-> <<>>]

\* an exception handler that logs and lets the exception go on to the caller
ExceptionHandlerReraises(self, message, ts) ==
    [self |-> AddLiveLog(self, ts, "Execution error", message),
     outcome |-> [kind |-> "raise", value |-> message]]

\* lines 74-76: except Exception as e
ExceptionHandler(self, message, ts) ==
    [self |-> AddLiveLog(self, ts, "Execution error", message),
     outcome |-> [kind |-> "return", value |-> <<"Execution failed: ">> \o message]]

\* lines 59-72: the rest of the try block once self.agent.run has returned
AfterAgentRun(self, agent, t0, t1) ==
    LET raw == [self EXCEPT !.raw_output =
                   IF agent.stderr # <<>> THEN <<agent.stdout, agent.stderr>>
                   ELSE <<agent.stdout>>]
    IN  CHOOSE done \in
            {AddLiveLog(
                 AddLiveLog(parsed, t1, "SmolAgent execution completed in",
                            IntToStr(t1 - t0)),
                 t1, "Captured real code blocks", IntToStr(Len(parsed.captured_code))) :
               parsed \in {ParseRealSmolagentExecution(
                               raw, agent.stdout \o agent.stderr, t1)}} : TRUE

\* lines 41-76: run_with_real_execution_capture.  agent is what self.agent.run
\* does in this call: the text it prints to stdout and stderr, whether it raises
\* an Exception (with which message) and the value it returns otherwise.  t0 is
\* the clock before the call, t1 the clock after it.  self.agent.run is called
\* once, at line 57, on either path.
RunWithRealExecutionCapture(self, q, agent, t0, t1) ==
    LET started == AddLiveLog(
                       AddLiveLog(Cleared(self), t0, "SmolAgent execution started", <<>>),
                       t0, "Processing query", q)
    IN  IF agent.raises
        THEN CHOOSE failed \in
                 {[self |-> h.self, agent_runs |-> 1, outcome |-> h.outcome] :
                    h \in {ExceptionHandler(started, agent.message, t1)}} : TRUE
        ELSE [self |-> AfterAgentRun(started, agent, t0, t1),
              agent_runs |-> 1,
              outcome |-> [kind |-> "return", value |-> agent.result]]

-----------------------------------------------------------------------------
(* More strings: case, words *)

UpperCase == <<"A", "B", "C", "D", "E", "F", "G", "H", "I", "J", "K", "L", "M",
               "N", "O", "P", "Q", "R", "S", "T", "U", "V", "W", "X", "Y", "Z">>
LowerCase == <<"a", "b", "c", "d", "e", "f", "g", "h", "i", "j", "k", "l", "m",
               "n", "o", "p", "q", "r", "s", "t", "u", "v", "w", "x", "y", "z">>
Letters == {UpperCase[i] : i \in 1..26} \cup {LowerCase[i] : i \in 1..26}
\* the characters of \w
WordChars == Letters \cup Digits \cup {"_"}

LowerChar(c) ==
    IF \E i \in 1..26 : UpperCase[i] = c
    THEN LowerCase[CHOOSE i \in 1..26 : UpperCase[i] = c] ELSE c
UpperChar(c) ==
    IF \E i \in 1..26 : LowerCase[i] = c
    THEN UpperCase[CHOOSE i \in 1..26 : LowerCase[i] = c] ELSE c

\* Python: s.lower()
Lower(s) == [i \in 1..Len(s) |-> LowerChar(s[i])]

\* Python: s.title(): a letter that follows no letter is upper-cased, any other
\* letter lower-cased
Title(s) ==
    [i \in 1..Len(s) |->
        IF i = 1 \/ s[i - 1] \notin Letters THEN UpperChar(s[i]) ELSE LowerChar(s[i])]

\* the characters of s at the positions outside del, in order
DeleteAt(s, del) ==
    LET idx == SelectSeq([k \in 1..Len(s) |-> k], LAMBDA k : k \notin del)
    IN  [j \in 1..Len(idx) |-> s[idx[j]]]

\* the least element of a non-empty set of numbers
Least(S) == CHOOSE i \in S : \A j \in S : i <= j

-----------------------------------------------------------------------------
(* Weather heuristics *)

\* the words of lines 206-222, character by character
WEATHER == <<"w", "e", "a", "t", "h", "e", "r">>
TEMPERATURE == <<"t", "e", "m", "p", "e", "r", "a", "t", "u", "r", "e">>
CLOUDY == <<"c", "l", "o", "u", "d", "y">>
RAINY == <<"r", "a", "i", "n", "y">>
SUNNY == <<"s", "u", "n", "n", "y">>
FORECAST == <<"f", "o", "r", "e", "c", "a", "s", "t">>
CLIMATE == <<"c", "l", "i", "m", "a", "t", "e">>
TODAY == <<"t", "o", "d", "a", "y">>
TOMORROW == <<"t", "o", "m", "o", "r", "r", "o", "w">>
NOW == <<"n", "o", "w">>
MUMBAI == <<"m", "u", "m", "b", "a", "i">>
DELHI == <<"d", "e", "l", "h", "i">>
BANGALORE == <<"b", "a", "n", "g", "a", "l", "o", "r", "e">>
NEW_YORK == <<"n", "e", "w", " ", "y", "o", "r", "k">>

\* line 222
weather_keywords == <<WEATHER, TEMPERATURE, CLOUDY, RAINY, SUNNY, FORECAST, CLIMATE>>

\* is_weather_query that compares the prompt as typed
is_weather_query_as_typed(prompt) ==
    \E i \in 1..Len(weather_keywords) : Contains(prompt, weather_keywords[i])

\* lines 221-223
is_weather_query(prompt) ==
    \E i \in 1..Len(weather_keywords) : Contains(Lower(prompt), weather_keywords[i])

\* line 206: where r'(?:weather|temperature)\s+(?:in|at|for)\s+([\w\s]+)' matches
\* when tried at position i of s: the span of group 1, or none.  Each \s+ takes
\* the whole run of whitespace; the second gives its last character back to the
\* group when no word character follows the run.
LocationMatchAt(s, i) ==
    LET kw == IF StartsAt(s, WEATHER, i) THEN WEATHER
              ELSE IF StartsAt(s, TEMPERATURE, i) THEN TEMPERATURE ELSE <<>>
        w1 == RunEnd(s, WhiteSpace, i + Len(kw))
        prep == IF StartsAt(s, <<"i", "n">>, w1 + 1) THEN 2
                ELSE IF StartsAt(s, <<"a", "t">>, w1 + 1) THEN 2
                ELSE IF StartsAt(s, <<"f", "o", "r">>, w1 + 1) THEN 3 ELSE 0
        p == w1 + prep
        w2 == RunEnd(s, WhiteSpace, p + 1)
        g == IF w2 + 1 <= Len(s) /\ s[w2 + 1] \in WordChars THEN w2 + 1
             ELSE IF w2 >= p + 2 THEN w2 ELSE 0
    IN  IF kw # <<>> /\ w1 >= i + Len(kw) /\ prep > 0 /\ w2 >= p + 1 /\ g > 0
        THEN [found |-> TRUE, from |-> g,
              to |-> RunEnd(s, WordChars \cup WhiteSpace, g)]
        ELSE [found |-> FALSE, from |-> 0, to |-> 0]

\* line 208: re.search(pattern, query_lower): group 1 of the leftmost match
LocationSearch(s) ==
    LET at == {i \in 1..Len(s) : LocationMatchAt(s, i).found}
    IN  IF at = {} THEN [found |-> FALSE, group |-> <<>>]
        ELSE LET m == LocationMatchAt(s, Least(at))
             IN  [found |-> TRUE, group |-> SubSeq(s, m.from, m.to)]

\* line 211: re.sub(r'\b(today|tomorrow|now)\b', '', location) on a string of
\* word characters and whitespace: every whole word that is one of the three
\* is deleted
RemoveTemporal(s) ==
    LET temporal == {TODAY, TOMORROW, NOW}
        starts == {a \in 1..Len(s) :
                      s[a] \in WordChars /\ (a = 1 \/ s[a - 1] \notin WordChars)}
        gone == {a \in starts : SubSeq(s, a, RunEnd(s, WordChars, a)) \in temporal}
    IN  DeleteAt(s, {k \in 1..Len(s) :
                        \E a \in gone : a <= k /\ k <= RunEnd(s, WordChars, a)})

\* line 215
city_keywords == <<[keyword |-> MUMBAI, city |-> Title(MUMBAI)],
                   [keyword |-> DELHI, city |-> Title(DELHI)],
                   [keyword |-> BANGALORE, city |-> Title(BANGALORE)],
                   [keyword |-> NEW_YORK, city |-> Title(NEW_YORK)]>>

\* lines 215-219: the city of the first keyword found, else "Mumbai"
CityByKeyword(query_lower) ==
    LET hit == {i \in 1..Len(city_keywords) :
                   Contains(query_lower, city_keywords[i].keyword)}
    IN  IF hit = {} THEN Title(MUMBAI) ELSE city_keywords[Least(hit)].city

\* extract_location_from_query without the test of line 212
extract_location_unchecked(q) ==
    LET query_lower == Lower(q)
        match == LocationSearch(query_lower)
    IN  IF match.found THEN Title(Strip(RemoveTemporal(Strip(match.group))))
        ELSE CityByKeyword(query_lower)

\* lines 204-219
extract_location_from_query(q) ==
    LET query_lower == Lower(q)
        match == LocationSearch(query_lower)
        place == Strip(RemoveTemporal(Strip(match.group)))
    IN  IF match.found /\ place # <<>> THEN Title(place)
        ELSE CityByKeyword(query_lower)

\* the words of lines 145-183, character by character
CELSIUS_SUFFIX == <<" ", "c", "e", "l", "s", "i", "u", "s">>
CURRENTLY == <<"c", "u", "r", "r", "e", "n", "t", "l", "y">>
CHENNAI == <<"c", "h", "e", "n", "n", "a", "i">>
LONDON == <<"l", "o", "n", "d", "o", "n">>
CLEAR == <<"c", "l", "e", "a", "r">>
PARTLY_CLOUDY == <<"p", "a", "r", "t", "l", "y", " ", "c", "l", "o", "u", "d", "y">>
OVERCAST == <<"o", "v", "e", "r", "c", "a", "s", "t">>
RAIN == <<"r", "a", "i", "n">>
DRIZZLE == <<"d", "r", "i", "z", "z", "l", "e">>
MIST == <<"m", "i", "s", "t">>
LIGHT_RAIN == <<"l", "i", "g", "h", "t", " ", "r", "a", "i", "n">>
THUNDERSTORM == <<"t", "h", "u", "n", "d", "e", "r", "s", "t", "o", "r", "m">>

\* (\d+) followed by the degree sign and suffix, tried at position j
DegreesAt(s, j, suffix) ==
    /\ j <= Len(s)
    /\ s[j] \in Digits
    /\ StartsAt(s, <<"^">> \o suffix, RunEnd(s, Digits, j) + 1)

RECURSIVE FindAllDegrees(_, _, _)
\* re.findall(r'(\d+)<degree><suffix>', s) from position from on: the groups of
\* the matches, left to right, each search resuming after the previous match
FindAllDegrees(s, suffix, from) ==
    LET at == {j \in from..Len(s) : DegreesAt(s, j, suffix)}
    IN  IF at = {} THEN <<>>
        ELSE LET j == Least(at)
                 e == RunEnd(s, Digits, j)
             IN  <<SubSeq(s, j, e)>> \o FindAllDegrees(s, suffix, e + 2 + Len(suffix))

\* r'<word>.*?(\d+)<degree>' tried at position i: the nearest digits followed by a
\* degree sign after the word, reached without crossing a newline
LazyDegreesAt(s, word, i) ==
    LET from == i + Len(word)
        at == {j \in from..Len(s) :
                  /\ DegreesAt(s, j, <<>>)
                  /\ \A k \in from..(j - 1) : s[k] # "\n"}
    IN  IF StartsAt(s, word, i) /\ at # {}
        THEN [found |-> TRUE, from |-> Least(at), to |-> RunEnd(s, Digits, Least(at))]
        ELSE [found |-> FALSE, from |-> 0, to |-> 0]

RECURSIVE FindAllLazy(_, _, _)
\* re.findall(r'<word>.*?(\d+)<degree>', s) from position from on
FindAllLazy(s, word, from) ==
    LET at == {i \in from..Len(s) : LazyDegreesAt(s, word, i).found}
    IN  IF at = {} THEN <<>>
        ELSE LET m == LazyDegreesAt(s, word, Least(at))
             IN  <<SubSeq(s, m.from, m.to)>> \o FindAllLazy(s, word, m.to + 2)

\* lines 145-150: the matches of the four patterns, pattern by pattern
TemperatureMatches(text) ==
    FindAllDegrees(text, <<"c">>, 1)
    \o FindAllDegrees(text, CELSIUS_SUFFIX, 1)
    \o FindAllLazy(text, TEMPERATURE, 1)
    \o FindAllLazy(text, CURRENTLY, 1)

\* Plausible without the range test
PlausibleAny(match) == StrToInt(match) >= 0

\* line 151: match.isdigit() and 10 <= int(match) <= 50
Plausible(match) == 10 <= StrToInt(match) /\ StrToInt(match) <= 50

\* lines 147-152
Temperatures(text) ==
    LET kept == SelectSeq(TemperatureMatches(text), Plausible)
    IN  [k \in 1..Len(kept) |-> StrToInt(kept[k])]

RECURSIVE Sum(_)
Sum(xs) == IF xs = <<>> THEN 0 ELSE xs[1] + Sum(Tail(xs))

\* Python: round(a / b) for a >= 0, b > 0: to the nearest integer, a tie to the
\* even one
RoundDiv(a, b) ==
    LET q == a \div b
        r == a % b
    IN  IF 2 * r < b THEN q
        ELSE IF 2 * r > b THEN q + 1
        ELSE IF q % 2 = 0 THEN q ELSE q + 1

\* line 183
current_temps == <<[city |-> MUMBAI, temp |-> 27], [city |-> DELHI, temp |-> 32],
                   [city |-> BANGALORE, temp |-> 24], [city |-> CHENNAI, temp |-> 30],
                   [city |-> NEW_YORK, temp |-> 22], [city |-> LONDON, temp |-> 16]>>

\* lines 182-184
get_current_realistic_temp(loc) ==
    LET hit == {i \in 1..Len(current_temps) : current_temps[i].city = Lower(loc)}
    IN  IF hit = {} THEN 25 ELSE current_temps[Least(hit)].temp

\* lines 172-176, in the order of the dict
conditions == <<[key |-> SUNNY, value |-> "Sunny"],
                [key |-> CLEAR, value |-> "Clear"],
                [key |-> CLOUDY, value |-> "Cloudy"],
                [key |-> PARTLY_CLOUDY, value |-> "Partly Cloudy"],
                [key |-> OVERCAST, value |-> "Overcast"],
                [key |-> RAINY, value |-> "Rainy"],
                [key |-> RAIN, value |-> "Rainy"],
                [key |-> DRIZZLE, value |-> "Drizzling"],
                [key |-> MIST, value |-> "Misty"],
                [key |-> LIGHT_RAIN, value |-> "Light Rain"],
                [key |-> THUNDERSTORM, value |-> "Thunderstorm"]>>

\* lines 171-180
extract_weather_condition_from_text(text) ==
    LET hit == {i \in 1..Len(conditions) : Contains(text, conditions[i].key)}
    IN  IF hit = {} THEN "Partly Cloudy" ELSE conditions[Least(hit)].value

\* lines 200-202; the icons are named, not drawn
get_weather_icon_for_condition(condition) ==
    CASE condition \in {"Clear", "Sunny"} -> "sun"
      [] condition = "Partly Cloudy" -> "sun behind cloud"
      [] condition = "Cloudy" -> "cloud"
      [] condition \in {"Rainy", "Light Rain"} -> "cloud with rain"
      [] OTHER -> "sun behind small cloud"

\* lines 165, 196: f"{temp_c}<degree>C ({temp_f}<degree>F), {condition}"
Description(temp_c, temp_f, condition) ==
    IntToStr(temp_c) \o <<"^", "C", " ", "(">> \o IntToStr(temp_f)
        \o <<"^", "F", ")", ",", " ">> \o <<condition>>

\* lines 187-191
current_weather ==
    <<[city |-> Title(MUMBAI), temp_c |-> 27, temp_f |-> 81,
       condition |-> "Light Rain", humidity |-> "89%", wind |-> "10 km/h",
       icon |-> "cloud with rain"],
      [city |-> Title(DELHI), temp_c |-> 32, temp_f |-> 90,
       condition |-> "Hazy", humidity |-> "75%", wind |-> "8 km/h",
       icon |-> "fog"],
      [city |-> Title(BANGALORE), temp_c |-> 24, temp_f |-> 75,
       condition |-> "Pleasant", humidity |-> "70%", wind |-> "5 km/h",
       icon |-> "sun behind small cloud"]>>

\* lines 193-198
FallbackRecord(loc, data) ==
    [location |-> Title(loc),
     temperature_c |-> data.temp_c, temperature_f |-> data.temp_f,
     condition |-> <<data.condition>>, icon |-> <<data.icon>>,
     description |-> Description(data.temp_c, data.temp_f, data.condition),
     humidity |-> <<data.humidity>>, wind |-> <<data.wind>>,
     source |-> <<"Current Data">>, error |-> FALSE]

\* get_current_weather_fallback looking the city up in lower case, as
\* get_current_realistic_temp does
get_current_weather_fallback_lower(loc, error_msg) ==
    LET hit == {i \in 1..Len(current_weather) : current_weather[i].city = Lower(loc)}
    IN  FallbackRecord(loc, IF hit = {} THEN current_weather[1]
                            ELSE current_weather[Least(hit)])

\* lines 186-198.  A text is a sequence of pieces: characters, or whole literals
\* of the source.  error_msg is not used.
get_current_weather_fallback(loc, error_msg) ==
    LET hit == {i \in 1..Len(current_weather) : current_weather[i].city = loc}
    IN  FallbackRecord(loc, IF hit = {} THEN current_weather[1]
                            ELSE current_weather[Least(hit)])

\* lines 154-157
AverageTemperature(temperatures, loc) ==
    IF temperatures # <<>>
    THEN LET n == IF Len(temperatures) < 3 THEN Len(temperatures) ELSE 3
         IN  RoundDiv(Sum(SubSeq(temperatures, 1, n)), n)
    ELSE get_current_realistic_temp(loc)

\* lines 162-167
WeatherRecord(loc, temp_c, temp_f, condition) ==
    [location |-> loc,
     temperature_c |-> temp_c, temperature_f |-> temp_f,
     condition |-> <<condition>>,
     icon |-> <<get_weather_icon_for_condition(condition)>>,
     description |-> Description(temp_c, temp_f, condition),
     humidity |-> <<"80%">>, wind |-> <<"8 km/h">>,
     source |-> <<"SmolAgent Google Search">>, error |-> FALSE]

\* lines 140-169; nothing in the try block raises on a str, so the handler of
\* lines 168-169 is never entered.  Each local is computed once, as a bound
\* variable.
parse_weather_from_google_search_results(search_text, loc) ==
    CHOOSE weather_data \in
        {WeatherRecord(loc, temp_c, RoundDiv(temp_c * 9 + 160, 5),
                       extract_weather_condition_from_text(text)) :
            text \in {Lower(search_text)},
            temp_c \in {AverageTemperature(Temperatures(Lower(search_text)), loc)}} : TRUE

\* line 138: f"SmolAgent search error: {e}"
SearchErrorContext(message) == <<"SmolAgent search error: ">> \o message

\* lines 130-138.  search is what search_tool does in this call: it raises an
\* Exception with a message, or returns a text.
get_weather_via_smolagent_google_search(loc, search) ==
    IF search.raises
    THEN [search_calls |-> 1,
          weather_data |-> get_current_weather_fallback(
                               loc, SearchErrorContext(search.message))]
    ELSE [search_calls |-> 1,
          weather_data |-> parse_weather_from_google_search_results(search.text, loc)]

-----------------------------------------------------------------------------
(* Console output of the external agent *)

StepLine == StepMarker \o <<" ", "2", " ", "=">>
ExecLine == <<" ">> \o ExecMarker \o <<" ">> \o Separator
SepLine == <<" ">> \o Separator \o <<" ">>
CodeLine == <<" ", " ", "x", " ">>
CodeLine2 == <<"\t", "y", "(", ")">>
BlankLine == <<" ">>
DurLine == <<"[", "S", "t", "e", "p", " ", "1", ":", " ">> \o DurationWord
             \o <<" ", "1", ".", "5", " ">> \o SecondsWord \o <<"]">>
StepDurLine == StepMarker \o <<" ", "0", "3", " ">> \o DurationWord
                \o <<" ", "2", " ">> \o SecondsWord
StepExecLine == StepMarker \o <<" ", "4", " ">> \o ExecMarker
SepDurLine == Separator \o <<" ">> \o DurationWord \o <<" ", "7", " ">> \o SecondsWord

\* what the agent prints in one go: a single line, or a whole code panel
Chunks == {<<StepLine>>, <<ExecLine>>, <<SepLine>>, <<CodeLine>>, <<BlankLine>>,
           <<DurLine>>, <<StepDurLine>>, <<StepExecLine>>, <<SepDurLine>>,
           <<ExecLine, CodeLine, CodeLine2, SepLine>>}

MaxChunks == 3

RECURSIVE LineSeqs(_)
\* the line sequences made of at most n chunks
LineSeqs(n) ==
    IF n = 0 THEN {<<>>}
    ELSE LET shorter == LineSeqs(n - 1)
         IN  shorter \cup {ls \o c : ls \in shorter, c \in Chunks}

-----------------------------------------------------------------------------
(* Specification of the scraper alone: one captured text, parsed once *)

Self == [captured_code |-> captured_code, execution_logs |-> execution_logs,
         live_logs |-> live_logs, raw_output |-> raw_output]

NoAgent == [stdout |-> <<>>, stderr |-> <<>>, raises |-> FALSE,
            message |-> <<>>, result |-> <<>>]
NoResult == [kind |-> "none", value |-> <<>>]
NoSearch == [raises |-> FALSE, message |-> <<>>, text |-> <<>>]
NoWeather == [location |-> <<>>, temperature_c |-> 0, temperature_f |-> 0,
              condition |-> <<>>, icon |-> <<>>, description |-> <<>>,
              humidity |-> <<>>, wind |-> <<>>, source |-> <<>>, error |-> FALSE]
NoCalls == [agent |-> 0, search |-> 0]
NoRun == [ran |-> FALSE, agent |-> NoAgent, clock |-> 0, captured_code |-> <<>>,
          parse_log |-> <<>>]

InitScraper ==
    /\ pc = "captured"
    /\ query = <<>>
    /\ emitted \in LineSeqs(MaxChunks)
    /\ agent_output = [NoAgent EXCEPT !.stdout = JoinLines(emitted)]
    /\ clock = 0
    /\ captured_code = <<>>
    /\ execution_logs = <<>>
    /\ live_logs = <<>>
    /\ raw_output = <<>>
    /\ result = NoResult
    /\ search_output = NoSearch
    /\ asked_location = <<>>
    /\ weather_info = NoWeather
    /\ calls = NoCalls
    /\ earlier = NoRun

\* line 66: self._parse_real_smolagent_execution(captured_stdout + captured_stderr)
Scrape ==
    /\ pc = "captured"
    /\ \E after \in {ParseRealSmolagentExecution(
                          Self, agent_output.stdout \o agent_output.stderr, clock)} :
           /\ captured_code' = after.captured_code
           /\ execution_logs' = after.execution_logs
           /\ live_logs' = after.live_logs
           /\ raw_output' = after.raw_output
    /\ pc' = "parsed"
    /\ UNCHANGED <<query, agent_output, emitted, clock, result,
                   search_output, asked_location, weather_info, calls, earlier>>

NextScraper == Scrape

SpecScraper == InitScraper /\ [][NextScraper]_vars

-----------------------------------------------------------------------------
(* Queries, search results and errors the specifications draw from *)

W_WEATHER == <<"w", "e", "a", "t", "h", "e", "r", " ">>
W_TEMPERATURE == <<"T", "e", "m", "p", "e", "r", "a", "t", "u", "r", "e", " ">>
W_IN == <<"i", "n", " ">>
W_AT == <<"a", "t", " ", " ">>
W_TOKYO == <<"T", "o", "k", "y", "o", " ">>
W_TODAY == <<"t", "o", "d", "a", "y">>
W_NOW == <<"N", "O", "W", " ">>
W_DELHI == <<"d", "e", "l", "h", "i", "?">>
Q_TELL_AI == <<"t", "e", "l", "l", " ", "m", "e", " ", "a", "b", "o", "u", "t", " ", "A", "I">>
Q_WEATHER_NOWHERE == <<"w", "e", "a", "t", "h", "e", "r", " ", "i", "n", " ", " ", "?">>
Q_WEATHER_NEW_YORK == <<"H", "o", "w", " ", "i", "s", " ", "t", "h", "e", " ", "w", "e", "a", "t", "h", "e", "r", " ", "f", "o", "r", " ", "n", "e", "w", " ", "y", "o", "r", "k", "_", "3", "r", "d", " ", "t", "o", "m", "o", "r", "r", "o", "w", ",", " ", "n", "o", "w">>
Q_TOMORROW_BANGALORE == <<"t", "e", "m", "p", "e", "r", "a", "t", "u", "r", "e", " ", "a", "t", " ", "t", "o", "m", "o", "r", "r", "o", "w", "?", " ", "b", "a", "n", "g", "a", "l", "o", "r", "e", " ", "o", "r", " ", "d", "e", "l", "h", "i">>
Q_WEATHER_DELHI == <<"w", "e", "a", "t", "h", "e", "r", " ", "i", "n", " ", "D", "e", "l", "h", "i">>
Q_WEATHER_MUMBAI == <<"W", "e", "a", "t", "h", "e", "r", " ", "i", "n", " ", "M", "u", "m", "b", "a", "i">>
Q_TEMPERATURE_PARIS == <<"t", "e", "m", "p", "e", "r", "a", "t", "u", "r", "e", " ", "i", "n", " ", "p", "a", "r", "i", "s", " ", "t", "o", "d", "a", "y">>
Q_BANGALORE_FORECAST == <<"b", "a", "n", "g", "a", "l", "o", "r", "e", " ", "f", "o", "r", "e", "c", "a", "s", "t">>
S_22C == <<"2", "2", "^", "c">>
S_75C == <<"7", "5", "^", "c">>
S_SPACE == <<" ">>
S_TEMPERATURE == <<"T", "e", "m", "p", "e", "r", "a", "t", "u", "r", "e", " ">>
S_23C == <<"2", "3", "^", "C">>
S_31_CELSIUS == <<"3", "1", "^", " ", "C", "e", "l", "s", "i", "u", "s">>
S_SUNNY == <<"S", "u", "n", "n", "y", "\n">>
E_TIMEOUT == <<"t", "i", "m", "e", "o", "u", "t">>
Q_BLANK == <<" ", " ", "\t">>
Q_WEATHER_PARIS == <<"W", "h", "a", "t", "'", "s", " ", "t", "h", "e", " ", "w", "e", "a", "t", "h", "e", "r", " ", "i", "n", " ", "P", "a", "r", "i", "s", "?">>
Q_SUNNY == <<"I", "s", " ", "i", "t", " ", "S", "U", "N", "N", "Y", "?">>
Q_EXPLAIN == <<"E", "x", "p", "l", "a", "i", "n", " ", "q", "u", "a", "n", "t", "u", "m", " ", "c", "o", "m", "p", "u", "t", "i", "n", "g">>
A_ANSWER == <<"4", "2">>
E_RATE_LIMIT == <<"H", "T", "T", "P", " ", "4", "2", "9">>

-----------------------------------------------------------------------------
(* Specification of the location extractor: one query, located once *)

LocationTokens == {W_WEATHER, W_TEMPERATURE, W_IN, W_AT, W_TOKYO, W_TODAY, W_NOW, W_DELHI}

MaxQueryTokens == 4

RECURSIVE TokenQueries(_)
\* the queries made of at most n tokens
TokenQueries(n) ==
    IF n = 0 THEN {<<>>}
    ELSE LET shorter == TokenQueries(n - 1)
         IN  shorter \cup {q \o t : q \in shorter, t \in LocationTokens}

LocationQueries ==
    TokenQueries(MaxQueryTokens)
        \cup {Q_TELL_AI, Q_WEATHER_NOWHERE, Q_WEATHER_NEW_YORK, Q_TOMORROW_BANGALORE}

InitLocation ==
    /\ pc = "asked"
    /\ query \in LocationQueries
    /\ emitted = <<>>
    /\ agent_output = NoAgent
    /\ clock = 0
    /\ captured_code = <<>>
    /\ execution_logs = <<>>
    /\ live_logs = <<>>
    /\ raw_output = <<>>
    /\ result = NoResult
    /\ search_output = NoSearch
    /\ asked_location = <<>>
    /\ weather_info = NoWeather
    /\ calls = NoCalls
    /\ earlier = NoRun

\* line 229: location = extract_location_from_query(query)
Locate ==
    /\ pc = "asked"
    /\ asked_location' = extract_location_from_query(query)
    /\ pc' = "located"
    /\ UNCHANGED <<query, agent_output, emitted, clock, captured_code, execution_logs,
                   live_logs, raw_output, result, search_output, weather_info,
                   calls, earlier>>

NextLocation == Locate

SpecLocation == InitLocation /\ [][NextLocation]_vars

-----------------------------------------------------------------------------
(* Specification of the weather resolver: one query, one answer of the search *)

WeatherQueries == {Q_WEATHER_DELHI, Q_WEATHER_MUMBAI, Q_TEMPERATURE_PARIS, Q_BANGALORE_FORECAST}

SearchTokens == {S_22C, S_75C, S_SPACE, S_TEMPERATURE, S_23C, S_31_CELSIUS, S_SUNNY}

MaxSearchTokens == 3

RECURSIVE SearchTexts(_)
\* the result texts made of at most n tokens
SearchTexts(n) ==
    IF n = 0 THEN {<<>>}
    ELSE LET shorter == SearchTexts(n - 1)
         IN  shorter \cup {t \o k : t \in shorter, k \in SearchTokens}

SearchErrors == {E_TIMEOUT, E_RATE_LIMIT}

SearchBehaviours ==
    {[raises |-> TRUE, message |-> m, text |-> <<>>] : m \in SearchErrors}
        \cup {[raises |-> FALSE, message |-> <<>>, text |-> t] :
                 t \in SearchTexts(MaxSearchTokens)}

InitWeather ==
    /\ pc = "asked"
    /\ query \in WeatherQueries
    /\ search_output \in SearchBehaviours
    /\ emitted = <<>>
    /\ agent_output = NoAgent
    /\ clock = 0
    /\ captured_code = <<>>
    /\ execution_logs = <<>>
    /\ live_logs = <<>>
    /\ raw_output = <<>>
    /\ result = NoResult
    /\ asked_location = <<>>
    /\ weather_info = NoWeather
    /\ calls = NoCalls
    /\ earlier = NoRun

\* line 233: weather_info = get_weather_via_smolagent_google_search(location, search_tool)
Resolve ==
    /\ pc = "located"
    /\ \E got \in {get_weather_via_smolagent_google_search(asked_location, search_output)} :
           /\ weather_info' = got.weather_data
           /\ calls' = [calls EXCEPT !.search = @ + got.search_calls]
    /\ pc' = "resolved"
    /\ UNCHANGED <<query, agent_output, emitted, clock, captured_code, execution_logs,
                   live_logs, raw_output, result, search_output, asked_location, earlier>>

NextWeather == Locate \/ Resolve

SpecWeather == InitWeather /\ [][NextWeather]_vars

-----------------------------------------------------------------------------
(* Specification of the application: one interaction after the other, each a  *)
(* press of the button with a query; the capture object lives on between them *)

AppQueries == {<<>>, Q_BLANK, Q_WEATHER_PARIS, Q_SUNNY, Q_EXPLAIN}

AppSearchBehaviours ==
    {[raises |-> TRUE, message |-> E_TIMEOUT, text |-> <<>>],
     [raises |-> FALSE, message |-> <<>>, text |-> S_TEMPERATURE \o S_23C]}

\* what the agent may do in one run: print a code panel and return, print the
\* same panel and fail, print a block whose separator arrives on stderr, print
\* step and duration lines, fail at once
AgentBehaviours ==
    {[stdout |-> JoinLines(<<ExecLine, CodeLine, CodeLine2, SepLine>>),
      stderr |-> <<>>, raises |-> FALSE, message |-> <<>>, result |-> A_ANSWER],
     [stdout |-> JoinLines(<<ExecLine, CodeLine, CodeLine2, SepLine>>),
      stderr |-> <<>>, raises |-> TRUE, message |-> E_TIMEOUT, result |-> <<>>],
     [stdout |-> JoinLines(<<ExecLine, CodeLine, CodeLine2, <<>>>>),
      stderr |-> SepLine, raises |-> FALSE, message |-> <<>>, result |-> A_ANSWER],
     [stdout |-> JoinLines(<<StepLine, DurLine>>),
      stderr |-> <<>>, raises |-> FALSE, message |-> <<>>, result |-> A_ANSWER],
     [stdout |-> <<>>,
      stderr |-> <<>>, raises |-> TRUE, message |-> E_RATE_LIMIT, result |-> <<>>]}

MaxClock == 1

\* the entries the parser wrote, without their timestamps
ParseLog(logs) ==
    LET sel == SelectSeq(logs, LAMBDA e :
                   e.kind \in {"Step detected", "Code execution block found",
                               "Captured real code block", "Step duration"})
    IN  [k \in 1..Len(sel) |-> <<sel[k].kind, sel[k].arg>>]

Init ==
    /\ pc = "idle"
    /\ query = <<>>
    /\ emitted = <<>>
    /\ agent_output = NoAgent
    /\ clock = 0
    /\ captured_code = <<>>
    /\ execution_logs = <<>>
    /\ live_logs = <<>>
    /\ raw_output = <<>>
    /\ result = NoResult
    /\ search_output = NoSearch
    /\ asked_location = <<>>
    /\ weather_info = NoWeather
    /\ calls = NoCalls
    /\ earlier = NoRun

\* line 421: the button is pressed and query.strip() is empty: nothing runs
SubmitBlank ==
    \E q \in AppQueries :
        /\ Strip(q) = <<>>
        /\ pc' = "blank"
        /\ query' = q
        /\ agent_output' = NoAgent
        /\ search_output' = NoSearch
        /\ result' = NoResult
        /\ asked_location' = <<>>
        /\ weather_info' = NoWeather
        /\ calls' = NoCalls
        /\ UNCHANGED <<emitted, clock, captured_code, execution_logs, live_logs,
                       raw_output, earlier>>

\* lines 421-426 and 225-250: a weather query
SubmitWeather ==
    \E q \in AppQueries, s \in AppSearchBehaviours :
        /\ Strip(q) # <<>>
        /\ is_weather_query(q)
        /\ pc' = "weather"
        /\ query' = q
        /\ agent_output' = NoAgent
        /\ search_output' = s
        /\ result' = NoResult
        /\ \E loc \in {extract_location_from_query(q)} :
              /\ asked_location' = loc
              /\ \E got \in {get_weather_via_smolagent_google_search(loc, s)} :
                    /\ weather_info' = got.weather_data
                    /\ calls' = [agent |-> 0, search |-> got.search_calls]
        /\ UNCHANGED <<emitted, clock, captured_code, execution_logs, live_logs,
                       raw_output, earlier>>

\* lines 421-430 and 276-304: any other query goes to the agent
SubmitResearch ==
    \E q \in AppQueries, a \in AgentBehaviours, t1 \in clock..MaxClock :
        /\ Strip(q) # <<>>
        /\ ~is_weather_query(q)
        /\ pc' = "researched"
        /\ query' = q
        /\ agent_output' = a
        /\ search_output' = NoSearch
        /\ asked_location' = <<>>
        /\ weather_info' = NoWeather
        /\ clock' = t1
        /\ \E run \in {RunWithRealExecutionCapture(Self, q, a, clock, t1)} :
              /\ captured_code' = run.self.captured_code
              /\ execution_logs' = run.self.execution_logs
              /\ live_logs' = run.self.live_logs
              /\ raw_output' = run.self.raw_output
              /\ result' = run.outcome
              /\ calls' = [agent |-> run.agent_runs, search |-> 0]
              /\ earlier' \in {earlier,
                               [ran |-> TRUE, agent |-> a, clock |-> t1,
                                captured_code |-> run.self.captured_code,
                                parse_log |-> ParseLog(run.self.live_logs)]}
        /\ UNCHANGED emitted

Next == SubmitBlank \/ SubmitWeather \/ SubmitResearch

Spec == Init /\ [][Next]_vars

-----------------------------------------------------------------------------
(* What the printed lines say, read off the lines themselves *)

IsStepLine(l) == Contains(l, StepMarker)
\* a marker line opens a block; a step-boundary line is a step line only
OpensBlock(l) == ~IsStepLine(l) /\ Contains(l, ExecMarker)
\* a separator line; the marker line, which ends in a run of bars, is not one
IsSeparatorLine(l) == ~IsStepLine(l) /\ ~Contains(l, ExecMarker) /\ Contains(l, Separator)
IsBlank(l) == \A i \in 1..Len(l) : l[i] \in WhiteSpace
\* a line that counts as code when it lies inside a block
IsCodeLine(l) == ~IsStepLine(l) /\ ~OpensBlock(l) /\ ~IsSeparatorLine(l) /\ ~IsBlank(l)

\* line k lies inside a block: a marker line precedes it with no separator line
\* in between
InsideBlock(ls, k) ==
    \E i \in 1..(k - 1) :
        OpensBlock(ls[i]) /\ \A m \in (i + 1)..(k - 1) : ~IsSeparatorLine(ls[m])

\* the blocks opened at line i and closed at line j with code in between
ClosedBlocks(ls) ==
    {b \in (1..Len(ls)) \X (1..Len(ls)) :
        /\ b[1] < b[2]
        /\ OpensBlock(ls[b[1]])
        /\ IsSeparatorLine(ls[b[2]])
        /\ \A m \in (b[1] + 1)..(b[2] - 1) : ~OpensBlock(ls[m]) /\ ~IsSeparatorLine(ls[m])
        /\ \E m \in (b[1] + 1)..(b[2] - 1) : IsCodeLine(ls[m])}

\* the nth closed block in the order of the text
NthBlock(ls, n) ==
    CHOOSE b \in ClosedBlocks(ls) :
        Cardinality({c \in ClosedBlocks(ls) : c[2] < b[2]}) = n - 1

\* the code lines of block b, stripped
StrippedCode(ls, b) ==
    LET inner == SelectSeq(SubSeq(ls, b[1] + 1, b[2] - 1), IsCodeLine)
    IN  [k \in 1..Len(inner) |-> Strip(inner[k])]

\* the non-empty lines of block b, character for character
VerbatimCode(ls, b) ==
    SelectSeq(SubSeq(ls, b[1] + 1, b[2] - 1), LAMBDA l : l # <<>>)

\* the text ends inside a block that was opened and never closed
EndsInsideBlock(ls) == InsideBlock(ls, Len(ls) + 1)

LogArgs(logs, kind) ==
    LET sel == SelectSeq(logs, LAMBDA e : e.kind = kind)
    IN  [k \in 1..Len(sel) |-> sel[k].arg]

\* the step numbers of the step-boundary lines that carry one, in order
StepNumbers(ls) ==
    LET sel == SelectSeq(ls, LAMBDA l : IsStepLine(l) /\ StepMatch(l).found)
    IN  [k \in 1..Len(sel) |-> IntToStr(StrToInt(StepMatch(sel[k]).group))]

\* the line numbers of the lines holding "Duration <number> seconds"
DurationLines(ls) == {k \in 1..Len(ls) : DurationMatch(ls[k]).found}

RECURSIVE DurationsAt(_, _, _)
\* the durations of the lines of ks from line k on, in order
DurationsAt(ls, ks, k) ==
    IF k > Len(ls) THEN <<>>
    ELSE (IF k \in ks THEN <<DurationMatch(ls[k]).group>> ELSE <<>>)
         \o DurationsAt(ls, ks, k + 1)

-----------------------------------------------------------------------------
(* Claims about the scraper *)

\* C1: parsing a captured text into an empty captured_code leaves exactly one
\* record per block that a marker line opened and a separator line closed with
\* at least one accumulated line, in the order of the text, with steps
\* 1, 2, ..., k; a block still open at the end of the text gives no record.
C1_OneRecordPerClosedBlock ==
    pc = "parsed" =>
        /\ Len(captured_code) = Cardinality(ClosedBlocks(emitted))
        /\ \A n \in 1..Len(captured_code) :
              /\ captured_code[n].step = n
              /\ captured_code[n].code =
                    JoinLines(StrippedCode(emitted, NthBlock(emitted, n)))

\* C1 witness: two closed blocks followed by a block that is never closed
C1_Witness ==
    /\ pc = "parsed"
    /\ Cardinality(ClosedBlocks(emitted)) = 2
    /\ EndsInsideBlock(emitted)
    /\ Len(captured_code) = 2

\* C9 as claimed: the code of every record is the newline-join of the non-empty
\* lines between the marker and the separator, character for character.
C9_CodeVerbatim ==
    pc = "parsed" =>
        \A n \in 1..Len(captured_code) :
            n <= Cardinality(ClosedBlocks(emitted)) =>
                captured_code[n].code =
                    JoinLines(VerbatimCode(emitted, NthBlock(emitted, n)))

\* C10 as claimed: every line with the step-boundary marker and a number gives a
\* "Step detected" entry and every line with "Duration <number> seconds" gives a
\* "Step duration" entry, whatever the mode and whatever else the line holds.
C10_DetectionIndependent ==
    pc = "parsed" =>
        /\ LogArgs(live_logs, "Step detected") = StepNumbers(emitted)
        /\ LogArgs(live_logs, "Step duration")
              = DurationsAt(emitted, DurationLines(emitted), 1)

\* C10 amended: step detection is independent of the mode; a duration line gives
\* its entry exactly when it is outside a code block and holds neither the
\* step-boundary marker nor the block marker.
C10_StepIndependentDurationOutside ==
    pc = "parsed" =>
        /\ LogArgs(live_logs, "Step detected") = StepNumbers(emitted)
        /\ LogArgs(live_logs, "Step duration")
              = DurationsAt(emitted,
                            {k \in DurationLines(emitted) :
                                /\ ~IsStepLine(emitted[k])
                                /\ ~OpensBlock(emitted[k])
                                /\ ~InsideBlock(emitted, k)},
                            1)

\* C10 witness: inside a block, a step line that is logged and a duration line
\* that is not
C10_Witness ==
    /\ pc = "parsed"
    /\ \E k \in 1..Len(emitted) :
          IsStepLine(emitted[k]) /\ StepMatch(emitted[k]).found /\ InsideBlock(emitted, k)
    /\ \E k \in DurationLines(emitted) :
          ~IsStepLine(emitted[k]) /\ InsideBlock(emitted, k)
    /\ Len(LogArgs(live_logs, "Step detected")) >= 1
    /\ LogArgs(live_logs, "Step duration") = <<>>

-----------------------------------------------------------------------------
(* Claims about the weather heuristics *)

\* the lines at which the scraper switches from outside a block to inside
OpenSwitches(ls) == {k \in 1..Len(ls) : OpensBlock(ls[k]) /\ ~InsideBlock(ls, k)}

\* the lines at which the scraper switches from inside a block to outside
CloseSwitches(ls) == {k \in 1..Len(ls) : IsSeparatorLine(ls[k]) /\ InsideBlock(ls, k)}

\* the close switches at which lines had been accumulated
CapturingCloses(ls) == {b[2] : b \in ClosedBlocks(ls)}

\* the kinds of the entries the block arms write, in the order logged
BlockLogKinds(logs) ==
    LET sel == SelectSeq(logs, LAMBDA e :
                   e.kind \in {"Code execution block found", "Captured real code block"})
    IN  [k \in 1..Len(sel) |-> sel[k].kind]

\* one entry per marker line and one per close with accumulated lines, in the
\* order of the text
ExpectedBlockLogKinds(ls) ==
    LET at == SelectSeq([k \in 1..Len(ls) |-> k],
                        LAMBDA k : OpensBlock(ls[k]) \/ k \in CapturingCloses(ls))
    IN  [n \in 1..Len(at) |-> IF OpensBlock(ls[at[n]])
                              THEN "Code execution block found"
                              ELSE "Captured real code block"]

\* C11 as claimed: every switch into a block and every switch out of a block,
\* a close with no accumulated lines included, adds exactly one entry to
\* live_logs and execution_logs.
C11_EveryTransitionLogged ==
    pc = "parsed" =>
        /\ live_logs = execution_logs
        /\ Len(LogArgs(live_logs, "Code execution block found"))
              >= Cardinality(OpenSwitches(emitted))
        /\ Len(LogArgs(live_logs, "Captured real code block"))
              = Cardinality(CloseSwitches(emitted))

\* C11: every marker line adds exactly one "Code execution block found" entry
\* to live_logs and execution_logs, whether or not a block is already open; a
\* separator line met inside a block adds exactly one "Captured real code
\* block N" entry when lines had been accumulated and no entry when none had;
\* the entries appear in the order of the lines.
C11_OpenAndCaptureLogged ==
    pc = "parsed" =>
        /\ live_logs = execution_logs
        /\ BlockLogKinds(live_logs) = ExpectedBlockLogKinds(emitted)
        /\ Len(LogArgs(live_logs, "Captured real code block"))
              = Cardinality(CapturingCloses(emitted))
        /\ Len(LogArgs(live_logs, "Captured real code block"))
              <= Cardinality(CloseSwitches(emitted))
        /\ \A n \in 1..Len(LogArgs(live_logs, "Captured real code block")) :
              LogArgs(live_logs, "Captured real code block")[n] = IntToStr(n)

\* C11 witness: a text with a block closed empty and a block closed with code:
\* two close switches, one capture entry
C11_Witness ==
    /\ pc = "parsed"
    /\ Cardinality(CloseSwitches(emitted)) = 2
    /\ Cardinality(CapturingCloses(emitted)) = 1
    /\ Len(LogArgs(live_logs, "Code execution block found")) = 2
    /\ Len(LogArgs(live_logs, "Captured real code block")) = 1

\* the text fields of a weather record
TextFields == {"location", "condition", "icon", "description", "humidity", "wind", "source"}

\* C4 as claimed: when the resolver falls back after a failed search, the
\* error-context string "SmolAgent search error: ..." is carried by the record
\* that get_current_weather_fallback returns.
C4_ErrorContextRetained ==
    (pc = "resolved" /\ search_output.raises) =>
        \E f \in TextFields :
            Contains(weather_info[f], SearchErrorContext(search_output.message))

\* C5: if the search raises, get_weather_via_smolagent_google_search returns the
\* static fallback record: the table values of Mumbai, Delhi or Bangalore for
\* that city, the values of Mumbai for any other location, whatever the
\* exception was.
C5_FallbackDeterministic ==
    (pc = "resolved" /\ search_output.raises) =>
        LET expect(c, f, cond, hum, wnd) ==
                /\ weather_info.temperature_c = c
                /\ weather_info.temperature_f = f
                /\ weather_info.condition = <<cond>>
                /\ weather_info.humidity = <<hum>>
                /\ weather_info.wind = <<wnd>>
                /\ weather_info.description = Description(c, f, cond)
        IN  /\ weather_info.location = Title(asked_location)
            /\ weather_info.source = <<"Current Data">>
            /\ weather_info.error = FALSE
            /\ IF asked_location = Title(DELHI)
               THEN expect(32, 90, "Hazy", "75%", "8 km/h")
               ELSE IF asked_location = Title(BANGALORE)
               THEN expect(24, 75, "Pleasant", "70%", "5 km/h")
               ELSE expect(27, 81, "Light Rain", "89%", "10 km/h")

\* C5 witness: the search raised for Delhi and Delhi's values came back
C5_Witness ==
    /\ pc = "resolved"
    /\ search_output.raises
    /\ asked_location = Title(DELHI)
    /\ weather_info.temperature_c = 32

\* the values of the temperature matches that lie in [10,50], in the order found
AcceptedMatches(text) ==
    LET ms == TemperatureMatches(Lower(text))
        ok == SelectSeq(ms, LAMBDA m : StrToInt(m) >= 10 /\ StrToInt(m) <= 50)
    IN  [k \in 1..Len(ok) |-> StrToInt(ok[k])]

\* C6: only matches in [10,50] are accepted; when one is accepted,
\* temperature_c is the rounded average of the first three accepted matches at
\* most ("22<degree>c 75<degree>c" gives 22), so temperature_c lies in [10,50].
C6_OnlyPlausibleAveraged ==
    (pc = "resolved" /\ ~search_output.raises) =>
        \A acc \in {AcceptedMatches(search_output.text)} :
            LET n == IF Len(acc) < 3 THEN Len(acc) ELSE 3
                total == Sum(SubSeq(acc, 1, n))
                t == weather_info.temperature_c
            IN  /\ 10 <= t /\ t <= 50
                /\ acc # <<>> =>
                      /\ 2 * (n * t - total) <= n
                      /\ 2 * (total - n * t) <= n
                /\ search_output.text = S_22C \o S_SPACE \o S_75C => t = 22

\* C6 witness: the text of the claim, and 22 as its temperature
C6_Witness ==
    /\ pc = "resolved"
    /\ search_output.text = S_22C \o S_SPACE \o S_75C
    /\ weather_info.temperature_c = 22

\* C7: extract_location_from_query returns a non-empty string: the title-cased
\* X of "weather|temperature in|at|for X" when X is non-empty once the temporal
\* words are removed, else the city of the first matching keyword, else Mumbai.
C7_LocationNonEmpty ==
    pc = "located" =>
        \A m \in {LocationSearch(Lower(query))} :
            LET X == Strip(RemoveTemporal(Strip(m.group)))
                cities == {i \in 1..Len(city_keywords) :
                              Contains(Lower(query), city_keywords[i].keyword)}
            IN  /\ asked_location # <<>>
                /\ (m.found /\ X # <<>>) => asked_location = Title(X)
                /\ (~m.found \/ X = <<>>) =>
                      asked_location = IF cities = {} THEN Title(MUMBAI)
                                       ELSE city_keywords[Least(cities)].city
                /\ query = W_WEATHER \o W_IN \o W_TOKYO \o W_TODAY =>
                      asked_location = <<"T", "o", "k", "y", "o">>
                /\ query = Q_TELL_AI => asked_location = <<"M", "u", "m", "b", "a", "i">>

\* C7 witness: the pattern matches and only temporal words follow it, so the
\* default city is returned
C7_Witness ==
    /\ pc = "located"
    /\ query = W_WEATHER \o W_IN \o W_TODAY
    /\ asked_location = <<"M", "u", "m", "b", "a", "i">>

-----------------------------------------------------------------------------
(* Claims about the application *)

ConsoleText(agent) == agent.stdout \o agent.stderr

StartedEntries(logs) ==
    {k \in 1..Len(logs) : logs[k].kind = "SmolAgent execution started"}

C3_AgentFailureContained ==
    pc = "researched" =>
        /\ result.kind = "return"
        /\ calls.agent = 1
        /\ agent_output.raises =>
              /\ result.value = <<"Execution failed: ">> \o agent_output.message
              /\ live_logs[Len(live_logs)].kind = "Execution error"
              /\ live_logs[Len(live_logs)].arg = agent_output.message
              /\ execution_logs[Len(execution_logs)] = live_logs[Len(live_logs)]
        /\ ~agent_output.raises => result.value = agent_output.result

\* C3 witness: the agent printed a code panel and then raised "timeout"
C3_Witness ==
    /\ pc = "researched"
    /\ agent_output.raises
    /\ agent_output.stdout # <<>>
    /\ result = [kind |-> "return",
                 value |-> <<"Execution failed: ">> \o E_TIMEOUT]
    /\ calls.agent = 1

SevenKeywords == {WEATHER, TEMPERATURE, CLOUDY, RAINY, SUNNY, FORECAST, CLIMATE}

\* C8: a blank query triggers neither flow; a non-blank query whose lower-cased
\* text contains one of the seven keywords calls the search once and never runs
\* the agent; any other non-blank query runs the agent once and never searches.
C8_ExactlyOneFlow ==
    pc # "idle" =>
        IF Strip(query) = <<>>
        THEN pc = "blank" /\ calls = [agent |-> 0, search |-> 0]
        ELSE IF \E kw \in SevenKeywords : Contains(Lower(query), kw)
        THEN pc = "weather" /\ calls = [agent |-> 0, search |-> 1]
                            /\ weather_info # NoWeather
        ELSE pc = "researched" /\ calls = [agent |-> 1, search |-> 0]
                               /\ weather_info = NoWeather

\* C8 witness: a query with a keyword in capitals took the weather flow
C8_Witness ==
    /\ pc = "weather"
    /\ query = Q_SUNNY
    /\ calls = [agent |-> 0, search |-> 1]

====
